---- MODULE Spec2Model ----
(***************************************************************************)
(* Model of the Windows plugin shim of flutter_splendid_ble:               *)
(*   src/windows/flutter_splendid_ble_plugin.cpp                           *)
(*   src/windows/flutter_splendid_ble_plugin.h                             *)
(*   src/windows/flutter_splendid_ble_plugin_c_api.cpp                     *)
(*                                                                         *)
(* State: the plugin instances on the heap, the registrar's owned plugin   *)
(* set, the messenger's handler table (channel name -> plugin pointer      *)
(* captured by the handler lambda), and the host-side record of every      *)
(* method call handled so far together with what its result sink received. *)
(***************************************************************************)
EXTENDS Integers, Sequences, FiniteSets, TLC

\* Bounds of the model.
MaxCalls == 2
MaxRegs == 2

(***************************************************************************)
(* Inputs.                                                                 *)
(***************************************************************************)

\* The channel name literal passed to the MethodChannel constructor.
ChannelName == "flutter_splendid_ble_plugin"

\* The two registration entry points.
EntryPoints ==
  {"FlutterSplendidBlePluginRegisterWithRegistrar",
   "FlutterSplendidBlePluginCApiRegisterWithRegistrar"}

\* Method names the host may deliver: the four the chain compares against,
\* the empty name, a name differing only in case, a name with trailing
\* whitespace, and an unrelated name.
MethodNames ==
  {"startScan", "stopScan", "connect", "disconnect",
   "", "StartScan", "connect ", "readCharacteristic"}

\* Argument values of a method call: absent, null, a structured value.
Arguments == {<<"absent">>, <<"null">>, <<"map", "id", "AA:BB">>}

\* flutter::MethodCall<EncodableValue>: method name and arguments.
MethodCalls == [method_name : MethodNames, arguments : Arguments]

(***************************************************************************)
(* flutter::MethodResult: what a handler can hand to the result sink.      *)
(***************************************************************************)
Success(value) == [kind |-> "Success", value |-> value]
NotImplemented == [kind |-> "NotImplemented"]
Error(code) == [kind |-> "Error", code |-> code]

VARIABLES
  created,        \* number of FlutterSplendidBlePlugin instances constructed
  alive,          \* instances constructed and not yet destroyed
  plugins,        \* instances owned by the registrar (AddPlugin)
  handlers,       \* messenger: channel name -> plugin_pointer of the lambda
  registrarAlive, \* the host's plugin registrar (and its messenger) exists
  registrations,  \* entry point -> number of times the host invoked it
  log             \* handled method calls, in order, with their sinks

vars == <<created, alive, plugins, handlers, registrarAlive, registrations, log>>

TotalRegistrations ==
  registrations["FlutterSplendidBlePluginRegisterWithRegistrar"]
    + registrations["FlutterSplendidBlePluginCApiRegisterWithRegistrar"]

Init ==
  /\ created = 0
  /\ alive = {}
  /\ plugins = {}
  /\ handlers = <<>>
  /\ registrarAlive = TRUE
  /\ registrations = [e \in EntryPoints |-> 0]
  /\ log = <<>>

(***************************************************************************)
(* MethodChannel::SetMethodCallHandler: binds (or rebinds) the handler of  *)
(* the named channel in the messenger.                                     *)
(***************************************************************************)
SetMethodCallHandler(table, name, plugin_pointer) ==
  [c \in (DOMAIN table) \cup {name} |->
     IF c = name THEN plugin_pointer ELSE table[c]]

(***************************************************************************)
(* FlutterSplendidBlePlugin::RegisterWithRegistrar.                        *)
(* The local unique_ptr `plugin` is empty after std::move into AddPlugin,  *)
(* so nothing is destroyed when the function's locals go out of scope; the *)
(* local `channel` is destroyed, which leaves the messenger's handler.     *)
(***************************************************************************)
\* Mutant: the handler is bound under another channel name.
RegisterWithRegistrar_WrongChannel ==
  /\ registrarAlive
  /\ created < MaxRegs
  /\ LET plugin == created + 1
     IN /\ created' = plugin
        /\ handlers' = SetMethodCallHandler(handlers, "flutter_splendid_ble", plugin)
        /\ plugins' = plugins \cup {plugin}
        /\ alive' = alive \cup {plugin}
  /\ UNCHANGED <<registrarAlive, log>>

\* Mutant: AddPlugin is forgotten, so the local unique_ptr still owns the
\* instance at scope exit and destroys it; the lambda keeps the raw pointer.
RegisterWithRegistrar_NoAddPlugin ==
  /\ registrarAlive
  /\ created < MaxRegs
  /\ LET plugin == created + 1
         ownedAtExit == {plugin}
     IN /\ created' = plugin
        /\ handlers' = SetMethodCallHandler(handlers, ChannelName, plugin)
        /\ plugins' = plugins
        /\ alive' = (alive \cup {plugin}) \ ownedAtExit
  /\ UNCHANGED <<registrarAlive, log>>

\* Mutant: a handler already bound to the channel is kept.
RegisterWithRegistrar_KeepFirstHandler ==
  /\ registrarAlive
  /\ created < MaxRegs
  /\ LET plugin == created + 1
     IN /\ created' = plugin
        /\ handlers' = IF ChannelName \in DOMAIN handlers
                         THEN handlers
                         ELSE SetMethodCallHandler(handlers, ChannelName, plugin)
        /\ plugins' = plugins \cup {plugin}
        /\ alive' = alive \cup {plugin}
  /\ UNCHANGED <<registrarAlive, log>>

RegisterWithRegistrar ==
  /\ registrarAlive
  /\ created < MaxRegs
  /\ LET plugin == created + 1          \* std::make_unique<...Plugin>()
         ownedAtExit == {}              \* `plugin` was moved from
     IN /\ created' = plugin
        /\ handlers' = SetMethodCallHandler(handlers, ChannelName, plugin)
        /\ plugins' = plugins \cup {plugin}      \* registrar->AddPlugin
        /\ alive' = (alive \cup {plugin}) \ ownedAtExit
  /\ UNCHANGED <<registrarAlive, log>>

\* Entry point defined in flutter_splendid_ble_plugin.cpp.
FlutterSplendidBlePluginRegisterWithRegistrar ==
  /\ RegisterWithRegistrar
  /\ registrations' =
       [registrations EXCEPT !["FlutterSplendidBlePluginRegisterWithRegistrar"] = @ + 1]

\* Entry point defined in flutter_splendid_ble_plugin_c_api.cpp.
FlutterSplendidBlePluginCApiRegisterWithRegistrar ==
  /\ RegisterWithRegistrar
  /\ registrations' =
       [registrations EXCEPT !["FlutterSplendidBlePluginCApiRegisterWithRegistrar"] = @ + 1]

(***************************************************************************)
(* FlutterSplendidBlePlugin::HandleMethodCall: the calls the handler makes *)
(* on its result sink, in order.  The handler reads the method name only   *)
(* and writes to nothing but the sink.                                     *)
(***************************************************************************)
MethodNameOf(method_call) == method_call.method_name

\* Mutant: the stopScan branch carries the payload of the startScan branch.
HandleMethodCall_WrongPayload(method_call) ==
  LET method_name == MethodNameOf(method_call)
  IN  IF method_name = "startScan" THEN <<Success("startScan called")>>
      ELSE IF method_name = "stopScan" THEN <<Success("startScan called")>>
      ELSE IF method_name = "connect" THEN <<Success("connect called")>>
      ELSE IF method_name = "disconnect" THEN <<Success("disconnect called")>>
      ELSE <<NotImplemented>>

\* Lower-casing of the method names of the model.
ToLower(name) ==
  IF name = "StartScan" \/ name = "startScan" THEN "startscan"
  ELSE IF name = "stopScan" THEN "stopscan"
  ELSE IF name = "readCharacteristic" THEN "readcharacteristic"
  ELSE name

\* Mutant: the comparisons ignore letter case.
HandleMethodCall_CaseInsensitive(method_call) ==
  LET method_name == ToLower(MethodNameOf(method_call))
  IN  IF method_name = "startscan" THEN <<Success("startScan called")>>
      ELSE IF method_name = "stopscan" THEN <<Success("stopScan called")>>
      ELSE IF method_name = "connect" THEN <<Success("connect called")>>
      ELSE IF method_name = "disconnect" THEN <<Success("disconnect called")>>
      ELSE <<NotImplemented>>

\* Mutant: independent `if`s instead of `else if`, so the final `else`
\* belongs to the disconnect test alone.
HandleMethodCall_FallThrough(method_call) ==
  LET method_name == MethodNameOf(method_call)
  IN  (IF method_name = "startScan" THEN <<Success("startScan called")>> ELSE <<>>)
      \o (IF method_name = "stopScan" THEN <<Success("stopScan called")>> ELSE <<>>)
      \o (IF method_name = "connect" THEN <<Success("connect called")>> ELSE <<>>)
      \o (IF method_name = "disconnect" THEN <<Success("disconnect called")>>
          ELSE <<NotImplemented>>)

\* Mutant: connect validates its argument.
HandleMethodCall_ArgCheck(method_call) ==
  LET method_name == MethodNameOf(method_call)
  IN  IF method_name = "startScan" THEN <<Success("startScan called")>>
      ELSE IF method_name = "stopScan" THEN <<Success("stopScan called")>>
      ELSE IF method_name = "connect"
        THEN IF method_call.arguments[1] = "map"
               THEN <<Success("connect called")>>
               ELSE <<NotImplemented>>
      ELSE IF method_name = "disconnect" THEN <<Success("disconnect called")>>
      ELSE <<NotImplemented>>

\* Mutant: the plugin remembers that a scan was started.
HandleMethodCall_Stateful(method_call) ==
  LET method_name == MethodNameOf(method_call)
      scanning == \E i \in DOMAIN log : log[i].method_call.method_name = "startScan"
  IN  IF method_name = "startScan"
        THEN IF scanning THEN <<NotImplemented>>
                         ELSE <<Success("startScan called")>>
      ELSE IF method_name = "stopScan" THEN <<Success("stopScan called")>>
      ELSE IF method_name = "connect" THEN <<Success("connect called")>>
      ELSE IF method_name = "disconnect" THEN <<Success("disconnect called")>>
      ELSE <<NotImplemented>>

\* Mutant: connect keeps its result for a later completion.
HandleMethodCall_Deferred(method_call) ==
  LET method_name == MethodNameOf(method_call)
  IN  IF method_name = "startScan" THEN <<Success("startScan called")>>
      ELSE IF method_name = "stopScan" THEN <<Success("stopScan called")>>
      ELSE IF method_name = "connect" THEN <<>>
      ELSE IF method_name = "disconnect" THEN <<Success("disconnect called")>>
      ELSE <<NotImplemented>>

\* Mutant: the empty method name is reported as an error.
HandleMethodCall_ErrorOnEmpty(method_call) ==
  LET method_name == MethodNameOf(method_call)
  IN  IF method_name = "startScan" THEN <<Success("startScan called")>>
      ELSE IF method_name = "stopScan" THEN <<Success("stopScan called")>>
      ELSE IF method_name = "connect" THEN <<Success("connect called")>>
      ELSE IF method_name = "disconnect" THEN <<Success("disconnect called")>>
      ELSE IF method_name = "" THEN <<Error("invalid_method")>>
      ELSE <<NotImplemented>>

HandleMethodCall(method_call) ==
  LET method_name == MethodNameOf(method_call)
  IN  IF method_name = "startScan" THEN <<Success("startScan called")>>
      ELSE IF method_name = "stopScan" THEN <<Success("stopScan called")>>
      ELSE IF method_name = "connect" THEN <<Success("connect called")>>
      ELSE IF method_name = "disconnect" THEN <<Success("disconnect called")>>
      ELSE <<NotImplemented>>

(***************************************************************************)
(* plugin_pointer->HandleMethodCall(...) through a pointer to a destroyed  *)
(* instance is undefined behaviour: the call may run as usual, reply with  *)
(* anything, reply twice, or fault without replying.                       *)
(***************************************************************************)
DanglingOutcomes(method_call) ==
  {[sink |-> HandleMethodCall(method_call), fault |-> FALSE],
   [sink |-> <<>>, fault |-> TRUE],
   [sink |-> <<Error("garbage")>>, fault |-> FALSE],
   [sink |-> <<NotImplemented, NotImplemented>>, fault |-> FALSE]}

(***************************************************************************)
(* The handler lambda bound by SetMethodCallHandler, invoked by the host   *)
(* messenger with a method call and a fresh result sink.  It forwards to   *)
(* HandleMethodCall of the captured plugin_pointer and returns.            *)
(***************************************************************************)
MethodCallHandler ==
  /\ registrarAlive
  /\ Len(log) < MaxCalls
  /\ \E channel \in DOMAIN handlers, call \in MethodCalls :
       LET plugin_pointer == handlers[channel]
           outcomes == IF plugin_pointer \in alive
                         THEN {[sink |-> HandleMethodCall(call), fault |-> FALSE]}
                         ELSE DanglingOutcomes(call)
       IN \E o \in outcomes :
            log' = Append(log,
                     [method_call    |-> call,
                      channel        |-> channel,
                      plugin_pointer |-> plugin_pointer,
                      dangling       |-> plugin_pointer \notin alive,
                      registrations  |-> TotalRegistrations,
                      sink           |-> o.sink,
                      fault          |-> o.fault])
  /\ UNCHANGED <<created, alive, plugins, handlers, registrarAlive, registrations>>

(***************************************************************************)
(* The host unloads plugins: the registrar is destroyed, which destroys    *)
(* every plugin it owns (~FlutterSplendidBlePlugin) and its messenger, so  *)
(* no further call is dispatched.  The destructor unbinds nothing.         *)
(***************************************************************************)
UnloadPlugins ==
  /\ registrarAlive
  /\ registrarAlive' = FALSE
  /\ alive' = alive \ plugins
  /\ plugins' = {}
  /\ UNCHANGED <<created, handlers, registrations, log>>

Next ==
  \/ FlutterSplendidBlePluginRegisterWithRegistrar
  \/ FlutterSplendidBlePluginCApiRegisterWithRegistrar
  \/ MethodCallHandler
  \/ UnloadPlugins

Spec == Init /\ [][Next]_vars

(***************************************************************************)
(* Properties.                                                             *)
(***************************************************************************)

\* The method names the claims call "recognized".
Recognized == {"startScan", "stopScan", "connect", "disconnect"}

NameAt(i) == log[i].method_call.method_name

\* C1: every handled call whose method name is one of startScan, stopScan,
\* connect, disconnect had Success delivered to its sink, with the payload
\* "<method name> called" for that same name (a non-empty text).
C1_RecognizedSucceeds ==
  \A i \in DOMAIN log :
    NameAt(i) \in Recognized =>
      /\ log[i].sink # <<>>
      /\ \A k \in DOMAIN log[i].sink :
           /\ log[i].sink[k] = Success(NameAt(i) \o " called")
           /\ Len(log[i].sink[k].value) > Len(NameAt(i))

C1_Witness ==
  \E i \in DOMAIN log :
    /\ log[i].method_call = [method_name |-> "startScan", arguments |-> <<"null">>]
    /\ log[i].sink = <<Success("startScan called")>>

\* C2: every handled call whose method name is not exactly one of the four
\* recognized names (empty, differing in case, with extra whitespace, or
\* unrelated) had NotImplemented delivered, never Success, and the handler
\* raised no fault.
C2_UnrecognizedNotImplemented ==
  \A i \in DOMAIN log :
    NameAt(i) \notin Recognized =>
      /\ log[i].sink # <<>>
      /\ \A k \in DOMAIN log[i].sink : log[i].sink[k] = NotImplemented
      /\ ~log[i].fault

C2_Witness ==
  /\ \E i \in DOMAIN log :
       NameAt(i) = "StartScan" /\ log[i].sink = <<NotImplemented>>
  /\ \E i \in DOMAIN log :
       NameAt(i) = "connect " /\ log[i].sink = <<NotImplemented>>

\* C3: the sink of every handled call received exactly one delivery, which
\* is Success or NotImplemented.
C3_ExactlyOneResult ==
  \A i \in DOMAIN log :
    /\ Len(log[i].sink) = 1
    /\ log[i].sink[1].kind \in {"Success", "NotImplemented"}

C3_Witness ==
  /\ Len(log) = MaxCalls
  /\ \E i \in DOMAIN log : log[i].sink = <<Success("disconnect called")>>
  /\ \E i \in DOMAIN log : NameAt(i) = "" /\ log[i].sink = <<NotImplemented>>

\* C4: two handled calls with the same method name received the same
\* result whatever their argument values were.
C4_ArgumentsIgnored ==
  \A i, j \in DOMAIN log :
    NameAt(i) = NameAt(j) =>
      /\ log[i].sink = log[j].sink
      /\ log[i].fault = log[j].fault

C4_Witness ==
  \E i, j \in DOMAIN log :
    /\ NameAt(i) = "connect" /\ NameAt(j) = "connect"
    /\ log[i].method_call.arguments = <<"map", "id", "AA:BB">>
    /\ log[j].method_call.arguments = <<"null">>
    /\ log[i].sink = <<Success("connect called")>>

\* C5: handling a call changes nothing but the record of that call (no
\* plugin, registrar or messenger state), and the result of a call does not
\* depend on the calls handled before it: a repeated call gets the result
\* of its first occurrence, and stopScan / disconnect succeed without a
\* preceding startScan / connect.
C5_HistoryIndependent ==
  /\ \A i, j \in DOMAIN log :
       (i < j /\ log[i].method_call = log[j].method_call) =>
          log[j].sink = log[i].sink
  /\ \A i \in DOMAIN log :
       /\ (NameAt(i) = "stopScan" /\ \A h \in 1..(i - 1) : NameAt(h) # "startScan")
            => log[i].sink = <<Success("stopScan called")>>
       /\ (NameAt(i) = "disconnect" /\ \A h \in 1..(i - 1) : NameAt(h) # "connect")
            => log[i].sink = <<Success("disconnect called")>>

C5_Stateless ==
  /\ []C5_HistoryIndependent
  /\ [][Len(log') > Len(log) =>
          /\ UNCHANGED <<created, alive, plugins, handlers, registrarAlive, registrations>>
          /\ SubSeq(log', 1, Len(log)) = log]_vars

C5_Witness ==
  /\ Len(log) >= 2
  /\ NameAt(1) = "startScan" /\ NameAt(2) = "startScan"
  /\ log[2].sink = <<Success("startScan called")>>

\* C6: results are delivered synchronously: every call the handler has
\* returned from already has its result in the sink (none is pending), and
\* the sink of a call that has returned is never touched afterwards.
C6_NonePending ==
  \A i \in DOMAIN log : Len(log[i].sink) >= 1

C6_Synchronous ==
  /\ []C6_NonePending
  /\ [][\A i \in DOMAIN log : i \in DOMAIN log' /\ log'[i].sink = log[i].sink]_vars

C6_Witness ==
  /\ Len(log) = MaxCalls
  /\ NameAt(1) = "connect"
  /\ log[1].sink # <<>>

\* C7: no handled call had an Error delivered, and NotImplemented was
\* delivered only for method names outside the recognized set.
C7_NoErrorOutcome ==
  \A i \in DOMAIN log :
    \A k \in DOMAIN log[i].sink :
      /\ log[i].sink[k].kind # "Error"
      /\ log[i].sink[k].kind = "NotImplemented" => NameAt(i) \notin Recognized

C7_Witness ==
  /\ \E i \in DOMAIN log :
       NameAt(i) = "" /\ log[i].sink = <<NotImplemented>>
  /\ \E i \in DOMAIN log :
       /\ NameAt(i) = "readCharacteristic"
       /\ log[i].method_call.arguments = <<"map", "id", "AA:BB">>

C9_HandlerTargetAlive ==
  /\ registrarAlive =>
       \A c \in DOMAIN handlers : handlers[c] \in alive /\ handlers[c] \in plugins
  /\ \A i \in DOMAIN log : ~log[i].dangling /\ log[i].plugin_pointer \in 1..created
  /\ ~registrarAlive => alive = {}

====
